---- MODULE Spec2Model ----
(***************************************************************************)
(* RichDashboard (src/shopify_app_store/rich_ui.py): the Scrapy extension  *)
(* that aggregates crawl events into counters and a bounded activity log   *)
(* and hands rendered layouts to a rich Live display.                      *)
(*                                                                         *)
(* Strings that the code slices, splits or formats (URLs, messages, log    *)
(* names and details) are sequences of one-character strings.  An optional *)
(* value is the empty sequence (Python's None) or a one-element sequence.  *)
(***************************************************************************)
EXTENDS Integers, Sequences, FiniteSets, TLC

VARIABLES
    total_apps, scraped_apps, skipped_apps,      \* self.total_apps ... (lines 27-29)
    error_count, rate_limit_count, retry_count,  \* lines 30-32
    item_counts,                                 \* self.item_counts (lines 35-43)
    activity_log,                                \* self.activity_log (line 46)
    start_time,                                  \* self.start_time (line 49)
    live,                                        \* self.live (line 52) and the Live object's state
    frame,                                       \* the renderable held by the Live object
    clock,                                       \* time.time()
    raised,                                      \* how the last handler call ended
    built,                                       \* the last handler call ran _build_layout
    handed,                                      \* the last handler call called live.update
    printed,                                     \* what the last handler call printed on the console
    appended,                                    \* every entry appended to activity_log so far
    delivered,                                   \* per category, the item_scraped calls begun
    applied,                                     \* notify_scraped and notify_skipped calls made,
                                                 \* argument of the last set_total_apps call
    nEvents,                                     \* handler calls made so far
    pc, tmp, arg, layout                         \* per execution context: position, loaded counter,
                                                 \* call argument, layout under construction

vars == <<total_apps, scraped_apps, skipped_apps, error_count, rate_limit_count,
          retry_count, item_counts, activity_log, start_time, live, frame, clock,
          raised, built, handed, printed, appended, delivered, applied, nEvents, pc, tmp, arg, layout>>

stateVars == <<total_apps, scraped_apps, skipped_apps, error_count, rate_limit_count,
               retry_count, item_counts, activity_log, start_time>>

ctxVars == <<pc, tmp, arg, layout>>

-----------------------------------------------------------------------------
(* Bounds of the model *)

MaxEvents == 3
MaxAppends == 9
MaxClock == 2
MaxCalls == 3
NumCtx == 2
MaxProgress == 6

(* Program constants *)

LogCap == 8
MsgCap == 60
RateLimited == 429
BarWidth == 30

-----------------------------------------------------------------------------
(* Strings *)

None == <<>>
Some(x) == <<x>>

Min(a, b) == IF a < b THEN a ELSE b

Chars(n, c) == [i \in 1..n |-> c]

UNKNOWN == <<"u", "n", "k", "n", "o", "w", "n">>
UNKNOWN_ERROR == <<"U", "n", "k", "n", "o", "w", "n", " ", "e", "r", "r", "o", "r">>
RATE_LIMITED_TEXT == <<"4", "2", "9", " ", "R", "a", "t", "e", " ", "L", "i", "m", "i", "t", "e", "d">>
APPS_TOTAL == <<" ", "a", "p", "p", "s", " ", "t", "o", "t", "a", "l">>

\* s[:n]
Truncate(s, n) == SubSeq(s, 1, Min(Len(s), n))

\* s.split('/')[-1]: what follows the last '/', the whole of s when it has none
LastSegment(s) ==
    LET slashes == {i \in 1..Len(s) : s[i] = "/"}
        last == IF slashes = {} THEN 0
                ELSE CHOOSE i \in slashes : \A j \in slashes : j <= i
    IN SubSeq(s, last + 1, Len(s))

\* s.rstrip('/')
RStrip(s) ==
    LET keep == {i \in 1..Len(s) : s[i] # "/"}
        last == IF keep = {} THEN 0
                ELSE CHOOSE i \in keep : \A j \in keep : j <= i
    IN SubSeq(s, 1, last)

Digit(d) == CASE d = 0 -> "0" [] d = 1 -> "1" [] d = 2 -> "2" [] d = 3 -> "3"
              [] d = 4 -> "4" [] d = 5 -> "5" [] d = 6 -> "6" [] d = 7 -> "7"
              [] d = 8 -> "8" [] d = 9 -> "9"

RECURSIVE Decimal(_)
\* f'{n}' of a non-negative integer
Decimal(n) == IF n < 10 THEN <<Digit(n)>> ELSE Decimal(n \div 10) \o <<Digit(n % 10)>>

-----------------------------------------------------------------------------
(* Inputs *)

UrlA == <<"s", "/", "a">>
UrlB == <<"s", "/", "b", "/">>
Urls == {UrlA, UrlB}

LongMessage == Chars(MsgCap, "x") \o <<"y">>
ShortMessage == <<"E">>
Messages == { LongMessage, ShortMessage }

Responses == {None} \cup {Some(u) : u \in Urls}
Failures == {None} \cup {Some(m) : m \in Messages}
Statuses == {200, RateLimited}
Reasons == {"finished", "shutdown"}
Counts == {0, 1, 3}
IO == {"ok", "fail"}

Categories == <<"App", "KeyBenefit", "PricingPlan", "PricingPlanFeature",
                "Category", "AppCategory", "AppReview">>
CategorySet == {Categories[i] : i \in 1..Len(Categories)}
ItemTypes == {"App", "AppReview", "Request"}

Ctx == 1..NumCtx

-----------------------------------------------------------------------------
(* State *)

\* The fields of the dashboard, as one value
State ==
    [total_apps |-> total_apps, scraped_apps |-> scraped_apps,
     skipped_apps |-> skipped_apps, error_count |-> error_count,
     rate_limit_count |-> rate_limit_count, retry_count |-> retry_count,
     item_counts |-> item_counts, activity_log |-> activity_log,
     start_time |-> start_time]

\* The fields after a handler's assignments
Store(s) ==
    /\ total_apps' = s.total_apps
    /\ scraped_apps' = s.scraped_apps
    /\ skipped_apps' = s.skipped_apps
    /\ error_count' = s.error_count
    /\ rate_limit_count' = s.rate_limit_count
    /\ retry_count' = s.retry_count
    /\ item_counts' = s.item_counts
    /\ activity_log' = s.activity_log
    /\ start_time' = s.start_time

\* DequeAppend with the newest entry dropped, instead of the oldest, once full
DequeAppendKeepOldest(log, entry) ==
    IF Len(log) < LogCap THEN Append(log, entry) ELSE log

\* deque(maxlen=8).append: the oldest entry is dropped once the deque is full
DequeAppend(log, entry) ==
    IF Len(log) < LogCap THEN Append(log, entry) ELSE Append(Tail(log), entry)

RECURSIVE SumFrom(_, _)
SumFrom(counts, i) ==
    IF i > Len(Categories) THEN 0 ELSE counts[Categories[i]] + SumFrom(counts, i + 1)

\* sum(self.item_counts.values())
SumItems(counts) == SumFrom(counts, 1)

-----------------------------------------------------------------------------
(* Rendering *)

\* n / d formatted to the nearest integer, ties to even (Python's .0f)
RoundDiv(n, d) ==
    LET q == n \div d
        r == n % d
    IN IF 2 * r > d THEN q + 1
       ELSE IF 2 * r = d THEN q + (q % 2)
       ELSE q

\* scraped / max(elapsed, 1) * 60: an elapsed time of 0 counted as one second
SpeedClamped(scraped, elapsed) ==
    RoundDiv(scraped * 60, IF elapsed > 1 THEN elapsed ELSE 1)

\* (scraped / elapsed * 60) if elapsed > 0 else 0
Speed(scraped, elapsed) == IF elapsed > 0 THEN RoundDiv(scraped * 60, elapsed) ELSE 0

\* The (done, total) pairs within the model's reach for which the double
\* done / total * 100 / 100 * 30 falls just short of the integer 30 * done / total
FloatShort == { <<1, 3>>, <<2, 3>>, <<4, 3>>, <<8, 3>>, <<11, 3>> }

\* int(pct / 100 * 30) with pct = done / total * 100
Filled(done, total) ==
    LET exact == (BarWidth * done) \div total
    IN IF <<done, total>> \in FloatShort THEN exact - 1 ELSE exact

\* '#' * n: the empty string when n is negative
Cells(n) == IF n > 0 THEN n ELSE 0

\* The progress line counting the scraped pages only
ProgressScrapedOnly(s) ==
    IF s.total_apps > 0
    THEN LET done == s.scraped_apps
             filled == Filled(done, s.total_apps)
         IN [waiting |-> FALSE, done |-> done, total |-> s.total_apps,
             pct10 |-> RoundDiv(done * 1000, s.total_apps),
             filled |-> Cells(filled), empty |-> Cells(BarWidth - filled)]
    ELSE [waiting |-> TRUE, done |-> 0, total |-> 0, pct10 |-> 0,
          filled |-> 0, empty |-> 0]

\* The progress line of _build_layout
Progress(s) ==
    IF s.total_apps > 0
    THEN LET done == s.scraped_apps + s.skipped_apps
             filled == Filled(done, s.total_apps)
         IN [waiting |-> FALSE, done |-> done, total |-> s.total_apps,
             pct10 |-> RoundDiv(done * 1000, s.total_apps),
             filled |-> Cells(filled), empty |-> Cells(BarWidth - filled)]
    ELSE [waiting |-> TRUE, done |-> 0, total |-> 0, pct10 |-> 0,
          filled |-> 0, empty |-> 0]

LogKinds == {"success", "error", "rate_limit", "skip"}

\* The activity lines of _build_layout: the entries of a known kind, in order
ActivityLines(log) == SelectSeq(log, LAMBDA e : e[1] \in LogKinds)

\* self._build_layout() at time now
BuildLayout(s, now) ==
    LET elapsed == IF s.start_time # None THEN now - s.start_time[1] ELSE 0
    IN [elapsed |-> elapsed,
        speed |-> Speed(s.scraped_apps, elapsed),
        progress |-> Progress(s),
        skipped |-> s.skipped_apps,
        retries |-> s.retry_count,
        scraped |-> s.scraped_apps,
        items |-> SumItems(s.item_counts),
        errors |-> s.error_count,
        rate_limits |-> s.rate_limit_count,
        rows |-> [i \in 1..Len(Categories) |-> <<Categories[i], s.item_counts[Categories[i]]>>],
        activity |-> ActivityLines(s.activity_log),
        placeholder |-> (ActivityLines(s.activity_log) = <<>>)]

\* self._build_summary(elapsed, reason)
BuildSummary(s, elapsed, reason) ==
    [reason |-> reason,
     elapsed |-> elapsed,
     scraped |-> s.scraped_apps,
     skipped |-> s.skipped_apps,
     items |-> SumItems(s.item_counts),
     speed |-> Speed(s.scraped_apps, elapsed),
     errors |-> s.error_count,
     rate_limits |-> s.rate_limit_count,
     items_detail |-> SelectSeq([i \in 1..Len(Categories) |->
                                    <<Categories[i], s.item_counts[Categories[i]]>>],
                                LAMBDA row : row[2] > 0)]

-----------------------------------------------------------------------------
(* Construction *)

Init ==
    /\ total_apps = 0
    /\ scraped_apps = 0
    /\ skipped_apps = 0
    /\ error_count = 0
    /\ rate_limit_count = 0
    /\ retry_count = 0
    /\ item_counts = [c \in CategorySet |-> 0]
    /\ activity_log = <<>>
    /\ start_time = None
    /\ live = "None"
    /\ frame = None
    /\ clock = 1
    /\ raised = "none"
    /\ built = FALSE
    /\ handed = FALSE
    /\ printed = None
    /\ appended = <<>>
    /\ delivered = [c \in CategorySet |-> 0]
    /\ applied = [scraped |-> 0, skipped |-> 0, total |-> 0]
    /\ nEvents = 0
    /\ pc = [i \in Ctx |-> "idle"]
    /\ tmp = [i \in Ctx |-> 0]
    /\ arg = [i \in Ctx |-> None]
    /\ layout = [i \in Ctx |-> None]

-----------------------------------------------------------------------------
(* Handlers, each run to completion by one execution context *)

\* _refresh that only signals: no layout is built, no frame is handed over
RefreshDeferred(s, io) ==
    /\ built' = FALSE
    /\ handed' = FALSE
    /\ frame' = frame
    /\ raised' = "none"

\* self._refresh() once the handler has left the fields as s; io is what the
\* terminal surface does with the call
Refresh(s, io) ==
    IF live # "None"
    THEN /\ built' = TRUE
         /\ handed' = TRUE
         /\ IF io = "ok"
            THEN frame' = Some(BuildLayout(s, clock)) /\ raised' = "none"
            ELSE frame' = frame /\ raised' = "SurfaceError"
    ELSE /\ built' = FALSE
         /\ handed' = FALSE
         /\ frame' = frame
         /\ raised' = "none"

spider_opened(io) ==
    LET s == [State EXCEPT !.start_time = Some(clock)]
    IN /\ Store(s)
       /\ frame' = Some(BuildLayout(s, clock))
       /\ built' = TRUE
       /\ handed' = FALSE
       /\ IF io = "ok"
          THEN live' = "started" /\ raised' = "none"
          ELSE live' = "created" /\ raised' = "SurfaceError"
       /\ printed' = None
       /\ UNCHANGED <<clock, appended, delivered, applied, ctxVars>>

\* spider_closed whose summary consumes the activity log
spider_closed_draining(reason, io) ==
    /\ live' = IF live # "None" THEN "stopped" ELSE live
    /\ IF start_time = None
       THEN raised' = "TypeError" /\ printed' = None
       ELSE IF io = "ok"
            THEN /\ raised' = "none"
                 /\ printed' = Some(BuildSummary(State, clock - start_time[1], reason))
            ELSE raised' = "SurfaceError" /\ printed' = None
    /\ built' = FALSE
    /\ handed' = FALSE
    /\ activity_log' = <<>>
    /\ UNCHANGED <<total_apps, scraped_apps, skipped_apps, error_count, rate_limit_count,
                   retry_count, item_counts, start_time>>
    /\ UNCHANGED <<frame, clock, appended, delivered, applied, ctxVars>>

spider_closed(reason, io) ==
    /\ live' = IF live # "None" THEN "stopped" ELSE live
    /\ IF start_time = None
       THEN raised' = "TypeError" /\ printed' = None
       ELSE IF io = "ok"
            THEN /\ raised' = "none"
                 /\ printed' = Some(BuildSummary(State, clock - start_time[1], reason))
            ELSE raised' = "SurfaceError" /\ printed' = None
    /\ built' = FALSE
    /\ handed' = FALSE
    /\ UNCHANGED <<stateVars, frame, clock, appended, delivered, applied, ctxVars>>

\* item_scraped counting every class name: item_counts.get(class_name, 0) + 1
item_scraped_any(class_name, io) ==
    LET keys == DOMAIN item_counts \cup {class_name}
        counts == [k \in keys |->
                     IF k = class_name
                     THEN (IF k \in DOMAIN item_counts THEN item_counts[k] ELSE 0) + 1
                     ELSE item_counts[k]]
        s == [State EXCEPT !.item_counts = counts]
    IN /\ Store(s)
       /\ Refresh(s, io)
       /\ delivered' = IF class_name \in DOMAIN delivered
                       THEN [delivered EXCEPT ![class_name] = @ + 1]
                       ELSE delivered
       /\ printed' = None
       /\ UNCHANGED <<live, clock, appended, applied, ctxVars>>

item_scraped(class_name, io) ==
    LET s == IF class_name \in DOMAIN item_counts
             THEN [State EXCEPT !.item_counts[class_name] = @ + 1]
             ELSE State
    IN /\ Store(s)
       /\ Refresh(s, io)
       /\ delivered' = IF class_name \in DOMAIN delivered
                       THEN [delivered EXCEPT ![class_name] = @ + 1]
                       ELSE delivered
       /\ printed' = None
       /\ UNCHANGED <<live, clock, appended, applied, ctxVars>>

\* spider_error without the [:60] slice
spider_error_untruncated(response, failure, io) ==
    LET app_name == IF response # None THEN LastSegment(response[1]) ELSE UNKNOWN
        error_msg == IF failure # None THEN failure[1] ELSE UNKNOWN_ERROR
        entry == <<"error", app_name, error_msg>>
        s == [State EXCEPT !.error_count = @ + 1,
                           !.activity_log = DequeAppend(@, entry)]
    IN /\ Store(s)
       /\ Refresh(s, io)
       /\ appended' = Append(appended, entry)
       /\ printed' = None
       /\ UNCHANGED <<live, clock, delivered, applied, ctxVars>>

\* spider_error counting the failed request as a retry as well
spider_error_retrying(response, failure, io) ==
    LET app_name == IF response # None THEN LastSegment(response[1]) ELSE UNKNOWN
        error_msg == IF failure # None THEN Truncate(failure[1], MsgCap) ELSE UNKNOWN_ERROR
        entry == <<"error", app_name, error_msg>>
        s == [State EXCEPT !.error_count = @ + 1,
                           !.retry_count = @ + 1,
                           !.activity_log = DequeAppend(@, entry)]
    IN /\ Store(s)
       /\ Refresh(s, io)
       /\ appended' = Append(appended, entry)
       /\ printed' = None
       /\ UNCHANGED <<live, clock, delivered, applied, ctxVars>>

spider_error(response, failure, io) ==
    LET app_name == IF response # None THEN LastSegment(response[1]) ELSE UNKNOWN
        error_msg == IF failure # None THEN Truncate(failure[1], MsgCap) ELSE UNKNOWN_ERROR
        entry == <<"error", app_name, error_msg>>
        s == [State EXCEPT !.error_count = @ + 1,
                           !.activity_log = DequeAppend(@, entry)]
    IN /\ Store(s)
       /\ Refresh(s, io)
       /\ appended' = Append(appended, entry)
       /\ printed' = None
       /\ UNCHANGED <<live, clock, delivered, applied, ctxVars>>

\* response_received counting every response, whatever its status
response_received_every(status, url, io) ==
    LET app_name == LastSegment(url)
        entry == <<"rate_limit", app_name, RATE_LIMITED_TEXT>>
        s == [State EXCEPT !.rate_limit_count = @ + 1,
                           !.activity_log = DequeAppend(@, entry)]
    IN /\ Store(s)
       /\ Refresh(s, io)
       /\ appended' = Append(appended, entry)
       /\ printed' = None
       /\ UNCHANGED <<live, clock, delivered, applied, ctxVars>>

response_received(status, url, io) ==
    IF status = RateLimited
    THEN LET app_name == LastSegment(url)
             entry == <<"rate_limit", app_name, RATE_LIMITED_TEXT>>
             s == [State EXCEPT !.rate_limit_count = @ + 1,
                                !.activity_log = DequeAppend(@, entry)]
         IN /\ Store(s)
            /\ Refresh(s, io)
            /\ appended' = Append(appended, entry)
            /\ printed' = None
            /\ UNCHANGED <<live, clock, delivered, applied, ctxVars>>
    ELSE /\ built' = FALSE
         /\ handed' = FALSE
         /\ raised' = "none"
         /\ printed' = None
         /\ UNCHANGED <<stateVars, live, frame, clock, appended, delivered, applied, ctxVars>>

notify_scraped(app_url, io) ==
    LET app_name == LastSegment(RStrip(app_url))
        entry == <<"success", app_name, Decimal(item_counts["App"]) \o APPS_TOTAL>>
        s == [State EXCEPT !.scraped_apps = @ + 1,
                           !.activity_log = DequeAppend(@, entry)]
    IN /\ Store(s)
       /\ Refresh(s, io)
       /\ appended' = Append(appended, entry)
       /\ applied' = [applied EXCEPT !.scraped = @ + 1]
       /\ printed' = None
       /\ UNCHANGED <<live, clock, delivered, ctxVars>>

\* notify_skipped that also logs a ('skip', ...) entry
notify_skipped_logged(io) ==
    LET entry == <<"skip", UNKNOWN, UNKNOWN>>
        s == [State EXCEPT !.skipped_apps = @ + 1,
                           !.activity_log = DequeAppend(@, entry)]
    IN /\ Store(s)
       /\ Refresh(s, io)
       /\ appended' = Append(appended, entry)
       /\ applied' = [applied EXCEPT !.skipped = @ + 1]
       /\ printed' = None
       /\ UNCHANGED <<live, clock, delivered, ctxVars>>

\* notify_skipped counting down
notify_skipped_down(io) ==
    LET s == [State EXCEPT !.skipped_apps = @ - 1]
    IN /\ Store(s)
       /\ Refresh(s, io)
       /\ applied' = [applied EXCEPT !.skipped = @ + 1]
       /\ printed' = None
       /\ UNCHANGED <<live, clock, appended, delivered, ctxVars>>

notify_skipped(io) ==
    LET s == [State EXCEPT !.skipped_apps = @ + 1]
    IN /\ Store(s)
       /\ Refresh(s, io)
       /\ applied' = [applied EXCEPT !.skipped = @ + 1]
       /\ printed' = None
       /\ UNCHANGED <<live, clock, appended, delivered, ctxVars>>

set_total_apps(count, io) ==
    LET s == [State EXCEPT !.total_apps = count]
    IN /\ Store(s)
       /\ Refresh(s, io)
       /\ applied' = [applied EXCEPT !.total = count]
       /\ printed' = None
       /\ UNCHANGED <<live, clock, appended, delivered, ctxVars>>

\* time.time() moves on between handler calls
Advance ==
    /\ clock < MaxClock
    /\ clock' = clock + 1
    /\ UNCHANGED <<stateVars, live, frame, raised, built, handed, printed,
                   appended, delivered, applied, nEvents, ctxVars>>

-----------------------------------------------------------------------------
(* Events delivered one at a time: any sequence of at most MaxEvents events *)

Deliver == nEvents < MaxEvents /\ nEvents' = nEvents + 1

OnCrawlStarted == Deliver /\ \E io \in IO : spider_opened(io)
OnCrawlFinished == Deliver /\ \E reason \in Reasons, io \in IO : spider_closed(reason, io)
OnItemProduced == Deliver /\ \E c \in ItemTypes, io \in IO : item_scraped(c, io)
OnCrawlError ==
    Deliver /\ \E response \in Responses, failure \in Failures, io \in IO :
                   spider_error(response, failure, io)
OnResponseReceived ==
    Deliver /\ \E status \in Statuses, url \in Urls, io \in IO :
                   response_received(status, url, io)
OnPageScraped == Deliver /\ \E url \in Urls, io \in IO : notify_scraped(url, io)
OnPageSkipped == Deliver /\ \E io \in IO : notify_skipped(io)
OnScopeDiscovered == Deliver /\ \E count \in Counts, io \in IO : set_total_apps(count, io)

Reducers ==
    \/ OnItemProduced
    \/ OnCrawlError
    \/ OnResponseReceived
    \/ OnPageScraped
    \/ OnPageSkipped
    \/ OnScopeDiscovered

Next ==
    \/ OnCrawlStarted
    \/ OnCrawlFinished
    \/ OnItemProduced
    \/ OnCrawlError
    \/ OnResponseReceived
    \/ OnPageScraped
    \/ OnPageSkipped
    \/ OnScopeDiscovered
    \/ Advance

Spec == Init /\ [][Next]_vars

-----------------------------------------------------------------------------
(* A long run of the three handlers that append to the activity log, one    *)
(* event at a time, with the live display started at any point              *)

MoreAppends == Len(appended) < MaxAppends

LogOpened == live = "None" /\ spider_opened("ok") /\ UNCHANGED nEvents
LogError ==
    MoreAppends /\ spider_error(Some(UrlA), Some(LongMessage), "ok") /\ UNCHANGED nEvents
LogResponse ==
    MoreAppends /\ UNCHANGED nEvents
                /\ \E status \in Statuses : response_received(status, UrlB, "ok")
LogScraped == MoreAppends /\ notify_scraped(UrlA, "ok") /\ UNCHANGED nEvents

NextLog ==
    \/ LogOpened
    \/ LogError
    \/ LogResponse
    \/ LogScraped

SpecLog == Init /\ [][NextLog]_vars

-----------------------------------------------------------------------------
(* The progress events only, at most MaxProgress of them: the sitemap's      *)
(* total, pages scraped and pages skipped, before or after the display opens *)

ScopeTotals == Counts \cup {100}

MoreProgress == nEvents < MaxProgress /\ nEvents' = nEvents + 1

ProgressScope == MoreProgress /\ \E count \in ScopeTotals, io \in IO : set_total_apps(count, io)
ProgressScraped == MoreProgress /\ \E io \in IO : notify_scraped(UrlA, io)
ProgressSkipped == MoreProgress /\ \E io \in IO : notify_skipped(io)

NextProgress ==
    \/ LogOpened
    \/ ProgressScope
    \/ ProgressScraped
    \/ ProgressSkipped

SpecProgress == Init /\ [][NextProgress]_vars

-----------------------------------------------------------------------------
(* Events delivered from NumCtx execution contexts at once.  The code takes *)
(* no lock, so a context may be switched out between any two of a handler's *)
(* loads and stores: item_counts[c] += 1 and error_count += 1 are a load    *)
(* and a store, and _build_layout reads the counters and then the log.      *)

Idle(i) == pc[i] = "idle"

\* item_scraped, lines 86-87
BeginItem(i, class_name) ==
    /\ Idle(i)
    /\ nEvents < MaxCalls
    /\ nEvents' = nEvents + 1
    /\ arg' = [arg EXCEPT ![i] = Some(class_name)]
    /\ pc' = [pc EXCEPT ![i] = IF class_name \in DOMAIN item_counts
                               THEN "item_load" ELSE "refresh"]
    /\ delivered' = IF class_name \in DOMAIN delivered
                    THEN [delivered EXCEPT ![class_name] = @ + 1]
                    ELSE delivered
    /\ UNCHANGED <<stateVars, live, frame, clock, raised, built, handed, printed,
                   appended, applied, tmp, layout>>

\* line 88, the load of self.item_counts[class_name]
ItemLoad(i) ==
    /\ pc[i] = "item_load"
    /\ tmp' = [tmp EXCEPT ![i] = item_counts[arg[i][1]]]
    /\ pc' = [pc EXCEPT ![i] = "item_store"]
    /\ UNCHANGED <<stateVars, live, frame, clock, raised, built, handed, printed,
                   appended, delivered, applied, nEvents, arg, layout>>

\* line 88, the store of the incremented value
ItemStore(i) ==
    /\ pc[i] = "item_store"
    /\ item_counts' = [item_counts EXCEPT ![arg[i][1]] = tmp[i] + 1]
    /\ pc' = [pc EXCEPT ![i] = "refresh"]
    /\ UNCHANGED <<total_apps, scraped_apps, skipped_apps, error_count,
                   rate_limit_count, retry_count, activity_log, start_time,
                   live, frame, clock, raised, built, handed, printed,
                   appended, delivered, applied, nEvents, tmp, arg, layout>>

\* spider_error is entered
BeginError(i, response, failure) ==
    /\ Idle(i)
    /\ nEvents < MaxCalls
    /\ nEvents' = nEvents + 1
    /\ arg' = [arg EXCEPT ![i] = <<response, failure>>]
    /\ pc' = [pc EXCEPT ![i] = "error_load"]
    /\ UNCHANGED <<stateVars, live, frame, clock, raised, built, handed, printed,
                   appended, delivered, applied, tmp, layout>>

\* line 92, the load of self.error_count
ErrorLoad(i) ==
    /\ pc[i] = "error_load"
    /\ tmp' = [tmp EXCEPT ![i] = error_count]
    /\ pc' = [pc EXCEPT ![i] = "error_store"]
    /\ UNCHANGED <<stateVars, live, frame, clock, raised, built, handed, printed,
                   appended, delivered, applied, nEvents, arg, layout>>

\* line 92, the store of the incremented value
ErrorStore(i) ==
    /\ pc[i] = "error_store"
    /\ error_count' = tmp[i] + 1
    /\ pc' = [pc EXCEPT ![i] = "error_append"]
    /\ UNCHANGED <<total_apps, scraped_apps, skipped_apps, rate_limit_count,
                   retry_count, item_counts, activity_log, start_time,
                   live, frame, clock, raised, built, handed, printed,
                   appended, delivered, applied, nEvents, tmp, arg, layout>>

\* lines 93-95
ErrorAppend(i) ==
    LET response == arg[i][1]
        failure == arg[i][2]
        app_name == IF response # None THEN LastSegment(response[1]) ELSE UNKNOWN
        error_msg == IF failure # None THEN Truncate(failure[1], MsgCap) ELSE UNKNOWN_ERROR
        entry == <<"error", app_name, error_msg>>
    IN /\ pc[i] = "error_append"
       /\ activity_log' = DequeAppend(activity_log, entry)
       /\ appended' = Append(appended, entry)
       /\ pc' = [pc EXCEPT ![i] = "refresh"]
       /\ UNCHANGED <<total_apps, scraped_apps, skipped_apps, error_count,
                      rate_limit_count, retry_count, item_counts, start_time,
                      live, frame, clock, raised, built, handed, printed,
                      delivered, applied, nEvents, tmp, arg, layout>>

\* _refresh, line 124: the handler returns when there is no live display
RefreshTest(i) ==
    /\ pc[i] = "refresh"
    /\ IF live # "None"
       THEN pc' = [pc EXCEPT ![i] = "build_counters"] /\ UNCHANGED <<built, handed, raised>>
       ELSE /\ pc' = [pc EXCEPT ![i] = "idle"]
            /\ built' = FALSE
            /\ handed' = FALSE
            /\ raised' = "none"
    /\ UNCHANGED <<stateVars, live, frame, clock, printed, appended, delivered, applied,
                   nEvents, tmp, arg, layout>>

\* _build_layout, lines 129-190: the counters and the item counts are read
BuildCounters(i) ==
    /\ pc[i] = "build_counters"
    /\ layout' = [layout EXCEPT ![i] = Some(BuildLayout(State, clock))]
    /\ pc' = [pc EXCEPT ![i] = "build_activity"]
    /\ UNCHANGED <<stateVars, live, frame, clock, raised, built, handed, printed,
                   appended, delivered, applied, nEvents, tmp, arg>>

\* _build_layout, lines 192-234: the activity log is read
BuildActivity(i) ==
    /\ pc[i] = "build_activity"
    /\ layout' = [layout EXCEPT ![i] =
                      Some([@[1] EXCEPT !.activity = ActivityLines(activity_log),
                                        !.placeholder = (ActivityLines(activity_log) = <<>>)])]
    /\ pc' = [pc EXCEPT ![i] = "update"]
    /\ UNCHANGED <<stateVars, live, frame, clock, raised, built, handed, printed,
                   appended, delivered, applied, nEvents, tmp, arg>>

\* line 125: self.live.update(layout), and the handler returns
Update(i) ==
    /\ pc[i] = "update"
    /\ frame' = layout[i]
    /\ built' = TRUE
    /\ handed' = TRUE
    /\ raised' = "none"
    /\ layout' = [layout EXCEPT ![i] = None]
    /\ pc' = [pc EXCEPT ![i] = "idle"]
    /\ UNCHANGED <<stateVars, live, clock, printed, appended, delivered, applied, nEvents, tmp, arg>>

ConcOpened == live = "None" /\ spider_opened("ok") /\ UNCHANGED nEvents

NextConc ==
    \/ ConcOpened
    \/ \E i \in Ctx, c \in ItemTypes : BeginItem(i, c)
    \/ \E i \in Ctx : ItemLoad(i)
    \/ \E i \in Ctx : ItemStore(i)
    \/ \E i \in Ctx, response \in {None, Some(UrlA)} : BeginError(i, response, None)
    \/ \E i \in Ctx : ErrorLoad(i)
    \/ \E i \in Ctx : ErrorStore(i)
    \/ \E i \in Ctx : ErrorAppend(i)
    \/ \E i \in Ctx : RefreshTest(i)
    \/ \E i \in Ctx : BuildCounters(i)
    \/ \E i \in Ctx : BuildActivity(i)
    \/ \E i \in Ctx : Update(i)

SpecConc == Init /\ [][NextConc]_vars

-----------------------------------------------------------------------------
(* Properties *)

CountersNonNegative ==
    /\ scraped_apps >= 0
    /\ skipped_apps >= 0
    /\ error_count >= 0
    /\ rate_limit_count >= 0
    /\ \A c \in DOMAIN item_counts : item_counts[c] >= 0

CountersNonDecreasing ==
    /\ scraped_apps' >= scraped_apps
    /\ skipped_apps' >= skipped_apps
    /\ error_count' >= error_count
    /\ rate_limit_count' >= rate_limit_count
    /\ \A c \in DOMAIN item_counts : item_counts'[c] >= item_counts[c]

\* C1: with events delivered one at a time, scraped_apps, skipped_apps,
\* error_count, rate_limit_count and every item_counts[c] are non-negative in
\* every reachable state and no step decreases any of them.
C1_CountersMonotone == []CountersNonNegative /\ [][CountersNonDecreasing]_vars

C1_Witness == error_count > 0 /\ skipped_apps > 0 /\ item_counts["App"] > 0

\* The last n entries of a sequence
LastEntries(seq, n) == SubSeq(seq, Len(seq) - n + 1, Len(seq))

\* C2: activity_log never holds more than 8 entries and always equals the last
\* min(n, 8) of the n entries appended so far, oldest first.
C2_LogIsLastEight ==
    /\ Len(activity_log) <= LogCap
    /\ activity_log = LastEntries(appended, Min(Len(appended), LogCap))

\* Nine entries have been appended and the first is no longer in the log
C2_Witness ==
    /\ Len(appended) = LogCap + 1
    /\ Len(activity_log) = LogCap
    /\ \A k \in 1..Len(activity_log) : activity_log[k] # appended[1]

\* C3: once total_apps > 0, scraped_apps + skipped_apps <= total_apps.
C3_ProgressWithinTotal ==
    total_apps > 0 => scraped_apps + skipped_apps <= total_apps

\* C4: when every context has returned, each category's tally equals the number
\* of item_scraped calls made for it: no concurrent increment is lost.
C4_NoLostUpdate ==
    (\A i \in Ctx : Idle(i)) => \A c \in CategorySet : item_counts[c] = delivered[c]

\* A context is inside _build_layout, reading the fields
Reading(i) == pc[i] = "build_activity"

\* A context is between a reducer's first load and its last store
Mutating(i) == pc[i] \in {"item_store", "error_store", "error_append"}

\* C5: no context builds a layout from the fields while another context is in
\* the middle of a reducer's mutation of them.
C5_MutualExclusion ==
    \A i, j \in Ctx : i # j => ~(Reading(i) /\ Mutating(j))

RefreshingReducers ==
    \/ OnItemProduced
    \/ OnCrawlError
    \/ Deliver /\ \E url \in Urls, io \in IO : response_received(RateLimited, url, io)
    \/ OnPageScraped
    \/ OnPageSkipped
    \/ OnScopeDiscovered

C7_StoppedIsTerminal == live = "stopped" => ~handed

\* C8: no handler call ends in an error of its own (a failure of the terminal
\* surface aside).
C8_ReducersTotal == raised # "TypeError"

\* C9: a failure of the terminal surface is never propagated to the caller of
\* a handler.
C9_SurfaceFailureContained == raised # "SurfaceError"

\* C10: once set, start_time is never changed by a later event.
C10_StartedAtSetOnce == [][start_time # None => start_time' = start_time]_vars


\* The log after is the log before with exactly one entry, entry, added at its
\* end (the oldest entry gone when the log was full)
OneEntryAppended(entry) ==
    LET n == Len(activity_log)
        m == Len(activity_log')
    IN /\ m = Min(n + 1, LogCap)
       /\ activity_log'[m] = entry
       /\ \A k \in 1..(m - 1) : activity_log'[k] = activity_log[k + n + 1 - m]

\* C11: response-received with status 429 adds exactly 1 to rate_limit_count,
\* appends exactly one (rate_limit, name, "429 Rate Limited") entry and changes
\* no other field; with any other status no field changes.
C11_ResponseReceived ==
    [][\A url \in Urls, io \in IO :
         /\ (Deliver /\ response_received(RateLimited, url, io)) =>
                /\ rate_limit_count' = rate_limit_count + 1
                /\ OneEntryAppended(<<"rate_limit", LastSegment(url), RATE_LIMITED_TEXT>>)
                /\ UNCHANGED <<total_apps, scraped_apps, skipped_apps, error_count,
                               retry_count, item_counts, start_time>>
         /\ \A status \in Statuses \ {RateLimited} :
                (Deliver /\ response_received(status, url, io)) => UNCHANGED stateVars]_vars

\* A 429 response has been counted and logged
C11_Witness ==
    /\ rate_limit_count = 1
    /\ activity_log = << <<"rate_limit", <<"a">>, RATE_LIMITED_TEXT>> >>
    /\ nEvents > 1


\* C12: item-produced with one of the 7 known categories adds exactly 1 to that
\* category's tally and changes no other tally; with any other category it
\* leaves item_counts unchanged; the keys of item_counts are always the 7
\* categories it was built with.
C12_ItemProduced ==
    /\ [](DOMAIN item_counts = CategorySet /\ Cardinality(DOMAIN item_counts) = 7)
    /\ [][\A c \in ItemTypes, io \in IO :
            (Deliver /\ item_scraped(c, io)) =>
                IF c \in CategorySet
                THEN /\ item_counts'[c] = item_counts[c] + 1
                     /\ \A d \in CategorySet \ {c} : item_counts'[d] = item_counts[d]
                ELSE item_counts' = item_counts]_vars

\* Two known categories have been counted once each, the others not at all
C12_Witness ==
    /\ item_counts["App"] = 1
    /\ item_counts["AppReview"] = 1
    /\ \A d \in CategorySet \ {"App", "AppReview"} : item_counts[d] = 0
    /\ nEvents = 3


\* C13: page-skipped adds exactly 1 to skipped_apps and leaves activity_log and
\* every other counter unchanged, so it never appends an entry of kind skip.
C13_PageSkipped ==
    [][OnPageSkipped =>
          /\ skipped_apps' = skipped_apps + 1
          /\ activity_log' = activity_log
          /\ \A k \in 1..Len(activity_log') : activity_log'[k][1] # "skip"
          /\ UNCHANGED <<total_apps, scraped_apps, error_count, rate_limit_count,
                         retry_count, item_counts, start_time>>]_vars

\* Pages have been skipped after an entry was logged, and the log still holds
\* that entry alone
C13_Witness ==
    /\ skipped_apps = 2
    /\ error_count = 1
    /\ Len(activity_log) = 1
    /\ activity_log[1][1] = "error"


\* detail is the first MsgCap characters of message (all of it when shorter)
IsPrefixOfAtMost(detail, message, n) ==
    /\ Len(detail) = Min(Len(message), n)
    /\ \A k \in 1..Len(detail) : detail[k] = message[k]

\* C14: crawl-error adds exactly 1 to error_count and appends exactly one entry
\* (error, subject, detail) whose detail is the first 60 characters of the
\* message; every error entry in the log has a detail of at most 60 characters.
C14_CrawlError ==
    /\ [](\A k \in 1..Len(activity_log) :
            activity_log[k][1] = "error" => Len(activity_log[k][3]) <= MsgCap)
    /\ [][\A response \in Responses, message \in Messages, io \in IO :
            (Deliver /\ spider_error(response, Some(message), io)) =>
                /\ error_count' = error_count + 1
                /\ Len(activity_log') = Min(Len(activity_log) + 1, LogCap)
                /\ \A k \in 1..(Len(activity_log') - 1) :
                       activity_log'[k] =
                           activity_log[k + Len(activity_log) + 1 - Len(activity_log')]
                /\ LET entry == activity_log'[Len(activity_log')]
                   IN /\ entry[1] = "error"
                      /\ entry[2] = IF response = None THEN UNKNOWN
                                    ELSE LastSegment(response[1])
                      /\ IsPrefixOfAtMost(entry[3], message, MsgCap)
                /\ UNCHANGED <<total_apps, scraped_apps, skipped_apps, rate_limit_count,
                               retry_count, item_counts, start_time>>]_vars

\* An error with a 61-character message was logged with its first 60
\* characters, after an error whose short message was logged whole
C14_Witness ==
    /\ error_count = 2
    /\ Len(activity_log) = 2
    /\ activity_log[1] = <<"error", <<"a">>, ShortMessage>>
    /\ activity_log[2] = <<"error", UNKNOWN, Chars(MsgCap, "x")>>


\* C15: after any sequence of progress events scraped_apps is the number of
\* page-scraped events applied, skipped_apps the number of page-skipped events
\* applied and total_apps the total of the last scope-discovered event; the
\* progress shown is scraped + skipped over that total, in a layout built now
\* and in the frame the last handler call handed to the display.
C15_ProgressCounts ==
    /\ scraped_apps = applied.scraped
    /\ skipped_apps = applied.skipped
    /\ total_apps = applied.total
    /\ total_apps > 0 =>
           LET p == BuildLayout(State, clock).progress
           IN /\ ~p.waiting
              /\ p.done = applied.scraped + applied.skipped
              /\ p.total = applied.total
    /\ (total_apps > 0 /\ frame # None /\ handed /\ raised = "none") =>
           /\ frame[1].progress.done = applied.scraped + applied.skipped
           /\ frame[1].progress.total = applied.total
           /\ frame[1].scraped = applied.scraped
           /\ frame[1].skipped = applied.skipped

\* scope-discovered(100), three pages scraped and two skipped: the display
\* holds 5 / 100 (5.0%), scraped 3, skipped 2
C15_Witness ==
    /\ applied = [scraped |-> 3, skipped |-> 2, total |-> 100]
    /\ frame # None
    /\ frame[1].progress.done = 5
    /\ frame[1].progress.total = 100
    /\ frame[1].progress.pct10 = 50
    /\ frame[1].scraped = 3
    /\ frame[1].skipped = 2


\* C16: rendering never divides by zero.  With total_apps = 0 the progress
\* line is the waiting text and no fraction is computed; with start_time unset
\* or no time elapsed the throughput is 0, in a layout built now, in the frame
\* the last handler call built, and in the printed summary.
C16_NoDivisionByZero ==
    LET now == BuildLayout(State, clock)
    IN /\ total_apps = 0 => now.progress.waiting
       /\ (start_time = None \/ start_time = Some(clock)) => now.speed = 0
       /\ (frame # None /\ built /\ raised = "none") =>
              /\ total_apps = 0 => frame[1].progress.waiting
              /\ (start_time = None \/ start_time = Some(clock)) => frame[1].speed = 0
       /\ frame # None => (frame[1].elapsed = 0 => frame[1].speed = 0)
       /\ printed # None => (printed[1].elapsed = 0 => printed[1].speed = 0)

\* A page was scraped in the second the display opened, before the sitemap's
\* total is known: the frame shows the waiting text and a throughput of 0
C16_Witness ==
    /\ total_apps = 0
    /\ scraped_apps > 0
    /\ start_time = Some(clock)
    /\ live = "started"
    /\ built /\ raised = "none"
    /\ frame # None
    /\ frame[1].scraped > 0
    /\ frame[1].progress.waiting
    /\ frame[1].speed = 0


\* C17: in every state with total_apps > 0 the progress bar is exactly 30
\* cells wide: the filled cells number floor(30 * (scraped_apps + skipped_apps)
\* / total_apps), between 0 and 30, and filled plus empty cells are 30.
C17_BarIsThirtyCells ==
    total_apps > 0 =>
        LET p == BuildLayout(State, clock).progress
        IN /\ p.filled = (BarWidth * (scraped_apps + skipped_apps)) \div total_apps
           /\ p.filled >= 0
           /\ p.filled <= BarWidth
           /\ p.filled + p.empty = BarWidth


\* The held frame is the layout of the current fields at the current time
FrameIsCurrent ==
    /\ frame # None
    /\ built
    /\ raised = "none"
    /\ start_time # None
    /\ frame[1].elapsed = clock - start_time[1]

\* C18: building a layout or a final summary leaves the fields unchanged.  A
\* crawl-finished step, which only builds and prints the summary, and an
\* item-produced step for an unknown class, which only builds a layout, leave
\* every counter, item_counts, activity_log and start_time as they were; and a
\* layout built again at the same time with no event in between is the same.
C18_RenderLeavesState ==
    [][/\ OnCrawlFinished => UNCHANGED stateVars
       /\ \A c \in ItemTypes \ CategorySet, io \in IO :
              (Deliver /\ item_scraped(c, io)) =>
                  /\ UNCHANGED stateVars
                  /\ (FrameIsCurrent /\ live # "None" /\ io = "ok") => frame' = frame]_vars

\* The summary of a crawl with a logged, scraped page has been printed and the
\* fields it was built from are intact
C18_Witness ==
    /\ printed # None
    /\ printed[1].scraped = 1
    /\ scraped_apps = 1
    /\ Len(activity_log) = 1
    /\ start_time # None


\* The counters, item tallies and activity log shown by a layout are those of
\* the current fields
ShowsCurrentState(l) ==
    /\ l.scraped = scraped_apps
    /\ l.skipped = skipped_apps
    /\ l.errors = error_count
    /\ l.rate_limits = rate_limit_count
    /\ l.retries = retry_count
    /\ l.progress = Progress(State)
    /\ l.rows = [i \in 1..Len(Categories) |-> <<Categories[i], item_counts[Categories[i]]>>]
    /\ l.activity = ActivityLines(activity_log)

\* C19: with events delivered one at a time, while the display is running
\* (started and not stopped) the frame it holds is never stale: its counters,
\* item tallies and activity log are those of the current fields.
C19_FrameNeverStale ==
    live = "started" => (frame # None /\ ShowsCurrentState(frame[1]))


\* C20: retry_count is 0 in every reachable state, since no handler changes
\* it, and the Retries figure of every layout shown is 0.
C20_RetriesAlwaysZero ==
    /\ retry_count = 0
    /\ BuildLayout(State, clock).retries = 0
    /\ frame # None => frame[1].retries = 0

\* The display shows errors and rate limits, and Retries 0
C20_Witness ==
    /\ live = "started"
    /\ error_count > 0
    /\ rate_limit_count > 0
    /\ frame # None
    /\ frame[1].errors > 0
    /\ frame[1].rate_limits > 0
    /\ frame[1].retries = 0

====
